---- MODULE Spec2Model ----
(***************************************************************************)
(* msdlive_hooks.activate: the server-extension hook that replaces a       *)
(* symlink named 'data' in the working directory by a real directory and   *)
(* copies the tree under '/data' into it, file by file, when the           *)
(* destination is missing or older.                                        *)
(*                                                                         *)
(* The state is the part of the filesystem the hook reads and writes:      *)
(*   source  the tree at '/data'                                           *)
(*   data    the directory entry 'data' of the working directory and the   *)
(*           tree below it                                                 *)
(*   linked  the object a symlink 'data' points to (a directory D and its  *)
(*           tree, a regular file, or nothing for a dangling link)         *)
(* Paths are sequences of names relative to the two roots; <<>> is the     *)
(* root itself.  Timestamps are the values os.path.getmtime reports.       *)
(* File contents are symbolic tokens: every file of the initial state has  *)
(* a content of its own, so "same content" is a check of where the bytes   *)
(* came from.                                                              *)
(*                                                                         *)
(* The entries of the trees are regular files and directories; the only    *)
(* symbolic link is the one that may stand at 'data'.                      *)
(*                                                                         *)
(* Library calls fail only for the reasons the shape of the tree decides  *)
(* (an entry of the wrong type where a directory or a file is needed).     *)
(* Faults of the environment (permission denied, disk full) are not        *)
(* modelled; the hook does not catch them.                                 *)
(***************************************************************************)
EXTENDS Integers, Sequences, FiniteSets, TLC

\* Timestamps of the initial trees range over 1..MaxTime.
MaxTime == 2
\* Number of consecutive calls of activate() in one behaviour.
MaxRuns == 2

Times == 1..MaxTime
\* The wall clock when an entry is created: any initial timestamp, or later.
Clock == 1..(MaxTime + 1)

Root == <<>>
\* 'input' is the large input directory of the docstring, 'f' any other name.
Paths == {<<"f">>, <<"input">>, <<"f", "f">>, <<"input", "f">>}
AllPaths == {Root} \cup Paths

Parent(p) == SubSeq(p, 1, Len(p) - 1)
Basename(p) == p[Len(p)]
Children(d) == {p \in Paths : Len(p) = Len(d) + 1 /\ Parent(p) = d}

Absent == [kind |-> "none", mtime |-> 0, content |-> <<>>, mode |-> "-"]
File(t, c, m) == [kind |-> "file", mtime |-> t, content |-> c, mode |-> m]
Dir(t, m) == [kind |-> "dir", mtime |-> t, content |-> <<>>, mode |-> m]
Link == [kind |-> "link", mtime |-> 0, content |-> <<>>, mode |-> "-"]

NoTree == [p \in AllPaths |-> Absent]

VARIABLES
    source,   \* the tree at source_path '/data'
    data,     \* the entry 'data' and the tree below it
    linked,   \* what a symlink 'data' points to
    pc,       \* position in activate(): "idle", "makedirs", "guard"
    run,      \* number of calls started
    raised,   \* the exception the current/last call ended with, or "none"
    log,      \* server_app.log calls of the current/last call
    copied,   \* pairs <<src, dst>> handed to shutil.copy2 in this call
    pre       \* data and linked as they were when the call started

vars == <<source, data, linked, pc, run, raised, log, copied, pre>>

(***************************************************************************)
(* The working directory as the library sees it.                           *)
(***************************************************************************)
\* The tree a path below 'data' resolves into: through the link, if any.
Via(fs) == IF fs.data[Root].kind = "link" THEN "linked" ELSE "data"
\* os.stat: the entry at data/p, following a symlink at 'data'.
Stat(fs, p) == fs[Via(fs)][p]
Put(fs, p, node) == [fs EXCEPT ![Via(fs)][p] = node]
\* Creating or removing an entry in a directory sets the directory's mtime.
TouchDir(fs, d, now) == Put(fs, d, [Stat(fs, d) EXCEPT !.mtime = now])

\* Mutant of islink: a test that follows the link (os.path.exists-like), so
\* that a dangling link is not seen.
islink_resolved(fs) == fs.data[Root].kind = "link" /\ fs.linked[Root].kind # "none"
\* os.path.islink(symlink_path)
islink(fs) == fs.data[Root].kind = "link"
\* Mutant of unlink: the link is left in place.
unlink_kept(fs) == fs
\* os.unlink(symlink_path): removes the link itself, never its target.
unlink(fs) == [fs EXCEPT !.data = NoTree]
\* os.path.exists(path), for a path under 'data'
exists(fs, p) == Stat(fs, p).kind # "none"
\* os.path.getmtime(path)
getmtime(node) == node.mtime

\* Mutant of makedirs: exist_ok=False, any existing entry is an error.
makedirs_exclusive(fs, p, now) ==
    IF p = Root /\ fs.data[Root].kind = "none"
      THEN [fs |-> [fs EXCEPT !.data[Root] = Dir(now, "rwx")], err |-> "none"]
    ELSE IF p # Root /\ Stat(fs, p).kind = "none"
      THEN [fs |-> TouchDir(Put(fs, p, Dir(now, "rwx")), Parent(p), now),
            err |-> "none"]
    ELSE [fs |-> fs, err |-> "FileExistsError"]

\* os.makedirs(data/p, exist_ok=True): [fs, err].  mkdir creates the entry
\* when the name is free; an existing entry is accepted only if it is, after
\* following links, a directory.
makedirs(fs, p, now) ==
    IF p = Root /\ fs.data[Root].kind = "none"
      THEN [fs |-> [fs EXCEPT !.data[Root] = Dir(now, "rwx")], err |-> "none"]
    ELSE IF p # Root /\ Stat(fs, p).kind = "none"
      THEN [fs |-> TouchDir(Put(fs, p, Dir(now, "rwx")), Parent(p), now),
            err |-> "none"]
    ELSE IF Stat(fs, p).kind = "dir"
      THEN [fs |-> fs, err |-> "none"]
    ELSE [fs |-> fs, err |-> "FileExistsError"]

\* shutil.copystat(src, dst): mode and times of the source entry.
copystat(fs, sp, dp) ==
    Put(fs, dp, [Stat(fs, dp) EXCEPT !.mtime = source[sp].mtime,
                                     !.mode = source[sp].mode])

\* Mutant of copy2: shutil.copyfile, the bytes without the metadata.
copyfile_only(fs, sp, dp, now) ==
    LET into == Stat(fs, dp).kind = "dir"
        d == IF into THEN dp \o <<Basename(sp)>> ELSE dp
        old == IF d \in AllPaths THEN Stat(fs, d) ELSE Dir(0, "-")
    IN  IF old.kind = "dir"
          THEN [fs |-> fs, err |-> "IsADirectoryError", dst |-> d]
          ELSE LET made == IF old.kind = "none"
                             THEN TouchDir(fs, Parent(d), now) ELSE fs
               IN [fs |-> Put(made, d,
                              File(now, source[sp].content,
                                   IF old.kind = "none" THEN "rw-" ELSE old.mode)),
                   err |-> "none", dst |-> d]

\* shutil.copy2(src, dst): [fs, err, dst].  A dst that is a directory means
\* "into that directory, under the source's base name".
copy2(fs, sp, dp, now) ==
    LET into == Stat(fs, dp).kind = "dir"
        d == IF into THEN dp \o <<Basename(sp)>> ELSE dp
        old == IF d \in AllPaths THEN Stat(fs, d) ELSE Dir(0, "-")
    IN  IF old.kind = "dir"
          THEN [fs |-> fs, err |-> "IsADirectoryError", dst |-> d]
          ELSE LET made == IF old.kind = "none"
                             THEN TouchDir(fs, Parent(d), now) ELSE fs
                   written == Put(made, d,
                                  File(now, source[sp].content,
                                       IF old.kind = "none" THEN "rw-" ELSE old.mode))
               IN [fs |-> copystat(written, sp, d), err |-> "none", dst |-> d]

\* Mutant of ShouldCopy: only missing files are copied.
ShouldCopy_missing_only(fs, sp, dp) == ~exists(fs, dp)

\* Mutant of ShouldCopy: >= for >, a tie is a copy.
ShouldCopy_not_older(fs, sp, dp) ==
    \/ ~exists(fs, dp)
    \/ getmtime(source[sp]) >= getmtime(Stat(fs, dp))

\* copy_function(src, dst), the test of lines 31-33: copy when the destination
\* does not exist or the source is strictly newer.
ShouldCopy(fs, sp, dp) ==
    \/ ~exists(fs, dp)
    \/ getmtime(source[sp]) > getmtime(Stat(fs, dp))

\* A walk in progress: the filesystem, the errors collected by the loop of
\* the directory being copied, and the copy2 calls made so far.
copy_function(st, sp, dp, now) ==
    IF ShouldCopy(st.fs, sp, dp)
      THEN LET r == copy2(st.fs, sp, dp, now)
           IN [fs |-> r.fs,
               errors |-> IF r.err = "none" THEN st.errors
                          ELSE st.errors \cup {<<sp, dp, r.err>>},
               copied |-> st.copied \cup {<<sp, dp>>}]
      ELSE st

\* shutil.copytree(src/d, data/d, copy_function=copy_function,
\* dirs_exist_ok=True): [fs, errors, copied, exc].  scandir of the source,
\* makedirs of the destination, one step per entry (an OSError or Error of
\* an entry is collected and the loop goes on), copystat of the directory,
\* then Error if anything was collected.  Entries write to disjoint subtrees
\* of the destination, so the order scandir yields them in does not matter.
RECURSIVE copytree(_, _, _, _)
RECURSIVE CopyEntries(_, _, _)

CopyEntries(st, todo, now) ==
    IF todo = {} THEN st
    ELSE LET e == CHOOSE x \in todo : TRUE
             st1 == IF source[e].kind = "dir"
                      THEN LET r == copytree(st.fs, st.copied, e, now)
                           IN [fs |-> r.fs,
                               errors |-> st.errors \cup
                                   (IF r.exc = "Error" THEN r.errors
                                    ELSE IF r.exc # "none" THEN {<<e, e, r.exc>>}
                                    ELSE {}),
                               copied |-> r.copied]
                      ELSE copy_function(st, e, e, now)
         IN CopyEntries(st1, todo \ {e}, now)

copytree(fs, done, d, now) ==
    IF source[d].kind # "dir"
      THEN [fs |-> fs, errors |-> {}, copied |-> done, exc |-> "NotADirectoryError"]
    ELSE LET mk == makedirs(fs, d, now)
         IN IF mk.err # "none"
              THEN [fs |-> fs, errors |-> {}, copied |-> done, exc |-> mk.err]
            ELSE LET entries == {e \in Children(d) : source[e].kind # "none"}
                     st == CopyEntries([fs |-> mk.fs, errors |-> {}, copied |-> done],
                                       entries, now)
                 IN [fs |-> copystat(st.fs, d, d),
                     errors |-> st.errors,
                     copied |-> st.copied,
                     exc |-> IF st.errors = {} THEN "none" ELSE "Error"]

(***************************************************************************)
(* Initial states: every shape of the two trees over Paths.                *)
(***************************************************************************)
MkTree(root, f, ff, i, if) ==
    [p \in AllPaths |->
        CASE p = Root -> root
          [] p = <<"f">> -> f
          [] p = <<"f", "f">> -> ff
          [] p = <<"input">> -> i
          [] p = <<"input", "f">> -> if]

\* An entry and the one entry below it: below anything but a directory
\* there is nothing.
Subtrees(tops, kids) ==
    UNION {{<<a, b>> : b \in IF a.kind = "dir" THEN kids ELSE {Absent}} : a \in tops}

\* '/data' as a directory: 'input', when present, is a directory; the other
\* name is a file or a directory.  The source is the read-only dataset:
\* its files carry the mode "r--", its directories "r-x" and the timestamp dt.
SourceDirs ==
    UNION {
      {MkTree(Dir(dt, "r-x"), sf[1], sf[2], si[1], si[2]) :
         sf \in Subtrees({Absent, Dir(dt, "r-x")}
                          \cup {File(t, <<"src", <<"f">>>>, "r--") : t \in Times},
                         {Absent} \cup {File(t, <<"src", <<"f", "f">>>>, "r--") : t \in Times}),
         si \in Subtrees({Absent, Dir(dt, "r-x")},
                         {Absent} \cup {File(t, <<"src", <<"input", "f">>>>, "r--") : t \in Times})}
      : dt \in Times}

\* source_path may also be missing, or be something that is not a directory.
SourceTrees ==
    SourceDirs \cup {NoTree, [NoTree EXCEPT ![Root] = File(MaxTime, <<"src", Root>>, "r--")]}

\* A directory in the working directory (at 'data', or where a link at
\* 'data' points to) with any entries: files, directories, or nothing, at
\* each name.
DestTop(p) ==
    {Absent} \cup {File(t, <<"dst", p>>, "rw-") : t \in Times}
             \cup {Dir(t, "rwx") : t \in Times}
DestKid(p) == {Absent} \cup {File(t, <<"dst", p>>, "rw-") : t \in Times}

DestDirs ==
    {MkTree(Dir(MaxTime, "rwx"), df[1], df[2], di[1], di[2]) :
       df \in Subtrees(DestTop(<<"f">>), DestKid(<<"f", "f">>)),
       di \in Subtrees(DestTop(<<"input">>), DestKid(<<"input", "f">>))}

\* The directory a link at 'data' points to: any files, no subdirectories.
LinkedDirs ==
    {t \in DestDirs : t[<<"input">>].kind # "dir" /\ t[<<"f">>].kind # "dir"}

\* A regular file in the working directory.
DestFile == [NoTree EXCEPT ![Root] = File(MaxTime, <<"dst", Root>>, "rw-")]
\* A symlink at 'data'.
DestLink == [NoTree EXCEPT ![Root] = Link]

Init ==
    /\ source \in SourceTrees
    /\ \/ data \in DestDirs \cup {NoTree, DestFile} /\ linked = NoTree
       \/ data = DestLink /\ linked \in LinkedDirs \cup {NoTree, DestFile}
    /\ pc = "idle"
    /\ run = 0
    /\ raised = "none"
    /\ log = <<>>
    /\ copied = {}
    /\ pre = [data |-> data, linked |-> linked]

(***************************************************************************)
(* activate(server_app), one action per statement group.                   *)
(***************************************************************************)
FS == [data |-> data, linked |-> linked]

\* Lines 17-22: entry, and the branch that finds and removes the symlink.
RemoveSymlink ==
    /\ pc = "idle" /\ run < MaxRuns
    /\ islink(FS)
    /\ data' = unlink(FS).data
    /\ linked' = unlink(FS).linked
    /\ log' = <<"info: activated", "info: symlink removed">>
    /\ pre' = FS
    /\ run' = run + 1
    /\ raised' = "none"
    /\ copied' = {}
    /\ pc' = "makedirs"
    /\ UNCHANGED source

\* Lines 17-20, 23-24: entry, and the branch that finds no symlink.
NotSymlink ==
    /\ pc = "idle" /\ run < MaxRuns
    /\ ~islink(FS)
    /\ log' = <<"info: activated", "info: not a symlink">>
    /\ pre' = FS
    /\ run' = run + 1
    /\ raised' = "none"
    /\ copied' = {}
    /\ pc' = "makedirs"
    /\ UNCHANGED <<source, data, linked>>

\* Lines 26-28: os.makedirs('data', exist_ok=True); its FileExistsError is
\* not caught and ends the call.
MakeDirs ==
    /\ pc = "makedirs"
    /\ \E now \in Clock :
         LET mk == makedirs(FS, Root, now)
         IN /\ data' = mk.fs.data
            /\ linked' = mk.fs.linked
            /\ raised' = mk.err
            /\ IF mk.err = "none"
                 THEN log' = Append(log, "info: directory created") /\ pc' = "guard"
                 ELSE log' = log /\ pc' = "idle"
    /\ UNCHANGED <<source, run, copied, pre>>

\* Mutant of SourceMissing: no guard, copytree meets the missing source.
SourceMissing_unguarded ==
    /\ pc = "guard"
    /\ source[Root].kind = "none"
    /\ raised' = "FileNotFoundError"
    /\ pc' = "idle"
    /\ UNCHANGED <<source, data, linked, run, log, copied, pre>>

\* Lines 38-43: the source directory does not exist: log the error, return.
SourceMissing ==
    /\ pc = "guard"
    /\ source[Root].kind = "none"
    /\ log' = Append(log, "error: source missing")
    /\ pc' = "idle"
    /\ UNCHANGED <<source, data, linked, run, raised, copied, pre>>

\* Lines 38-41, 45-50: the source exists: copytree, whose exceptions are
\* not caught.
CopyTree ==
    /\ pc = "guard"
    /\ source[Root].kind # "none"
    /\ \E now \in Clock :
         LET r == copytree(FS, {}, Root, now)
         IN /\ data' = r.fs.data
            /\ linked' = r.fs.linked
            /\ raised' = r.exc
            /\ copied' = r.copied
    /\ pc' = "idle"
    /\ UNCHANGED <<source, run, log, pre>>

Next == RemoveSymlink \/ NotSymlink \/ MakeDirs \/ SourceMissing \/ CopyTree

Spec == Init /\ [][Next]_vars

\* The call has ended: returned, or raised.
Done == pc = "idle" /\ run > 0
Returned == Done /\ raised = "none"

(***************************************************************************)
(* Vocabulary of the properties.                                           *)
(***************************************************************************)
\* The regular files of the source tree.
SrcFiles == {p \in Paths : source[p].kind = "file"}
\* The entry at data/p when the call started, as os.stat saw it then.
PreStat(p) == Stat(pre, p)
\* 'data' was a symbolic link / a real directory when the call started.
PreLink == pre.data[Root].kind = "link"
PreDir == pre.data[Root].kind = "dir"
\* data/p is a real file with the content, mtime and mode of source file p.
Mirrors(p) == data[Root].kind = "dir" /\ data[p] = source[p]
\* Every directory on the way from 'data' to data/p exists.
DirsTo(p) == \A n \in 0..(Len(p) - 1) : data[SubSeq(p, 1, n)].kind = "dir"

\* C1: when the call returns, every source file whose mirrored path did not
\* exist before the call is at that path under the real directory 'data',
\* with the source's content, mtime and mode, below existing directories.
C1_MissingFilesCopied ==
    Returned =>
        \A p \in SrcFiles : ~exists(pre, p) => Mirrors(p) /\ DirsTo(p)

\* A file two levels down was copied into a directory the call had to create.
C1_Witness ==
    /\ Returned /\ PreDir
    /\ \E p \in SrcFiles :
          /\ Len(p) = 2 /\ pre.data[Parent(p)].kind = "none"
          /\ Mirrors(p) /\ DirsTo(p)

\* C2: after the call, every file that was at both places with the source
\* strictly newer has the source's content and mtime at the destination.
C2_NewerOverwrites ==
    Done =>
        \A p \in SrcFiles :
            (PreStat(p).kind = "file" /\ source[p].mtime > PreStat(p).mtime)
                => /\ data[p].kind = "file"
                   /\ data[p].content = source[p].content
                   /\ data[p].mtime = source[p].mtime

\* An older file of a real directory 'data' now holds the source's bytes.
C2_Witness ==
    /\ Done /\ PreDir
    /\ \E p \in SrcFiles :
          /\ pre.data[p].kind = "file" /\ source[p].mtime > pre.data[p].mtime
          /\ pre.data[p].content # source[p].content
          /\ data[p] = source[p]

\* C3: after the call, every file that was at both places with the source
\* not newer (equal times included) is what it was: the file itself, in the
\* directory that held it, has its content, mtime and mode unchanged.
C3_NotNewerUntouched ==
    Done =>
        \A p \in SrcFiles :
            (PreStat(p).kind = "file" /\ source[p].mtime <= PreStat(p).mtime)
                => IF PreLink THEN linked[p] = pre.linked[p]
                              ELSE data[p] = pre.data[p]

\* The tie: equal mtimes, and the destination kept its own bytes.
C3_Witness ==
    /\ Returned /\ PreDir
    /\ \E p \in SrcFiles :
          /\ pre.data[p].kind = "file" /\ source[p].mtime = pre.data[p].mtime
          /\ data[p] = pre.data[p] /\ data[p].content # source[p].content

\* C4: a call that follows another call hands nothing to copy2.
C4_SecondRunCopiesNothing ==
    (Done /\ run >= 2) => copied = {}

\* C4, where it does hold: when no directory of the destination stands at
\* the path of a regular file of the source, a call that follows another
\* call hands nothing to copy2.
TypeConflict(fs) ==
    \E p \in Paths : source[p].kind = "file" /\ Stat(fs, p).kind = "dir"

C4_WithoutTypeConflict ==
    (Done /\ run >= 2 /\ ~TypeConflict(pre)) => copied = {}

\* C5: a symlink at 'data', whatever it points to, is a real directory once
\* the directory-ensure step has run, and stays one to the end of the call,
\* with or without a source.
C5_SymlinkBecomesDirectory ==
    (PreLink /\ (pc = "guard" \/ Done)) => data[Root].kind = "dir"

\* A dangling link, no source: 'data' is a directory after the call.
C5_Witness ==
    /\ Done /\ PreLink /\ pre.linked[Root].kind = "none"
    /\ source[Root].kind = "none"
    /\ data[Root].kind = "dir"

\* C6: an absent 'data' is a directory after the call, with or without a
\* source; and for a 'data' that is a directory already, the ensure step
\* changes nothing and does not fail.
C6_DirectoryEnsured ==
    /\ (pre.data[Root].kind = "none" /\ run > 0 /\ (pc = "guard" \/ Done))
          => data[Root].kind = "dir"
    /\ (PreDir /\ pc = "guard") => (data = pre.data /\ raised = "none")
    /\ (PreDir /\ Done) => raised # "FileExistsError"

\* 'data' was absent, the source too, and the call made the directory.
C6_Witness ==
    /\ Done /\ run = 1 /\ pre.data[Root].kind = "none"
    /\ source[Root].kind = "none"
    /\ data[Root].kind = "dir"

\* The entries below 'data'.
Empty(tree) == \A p \in Paths : tree[p] = Absent

\* C7 as stated: without a source the call logs the error, returns without
\* raising, copies nothing, and 'data' is a directory with nothing in it.
C7_AsStated ==
    (Done /\ source[Root].kind = "none") =>
        /\ raised = "none"
        /\ log[Len(log)] = "error: source missing"
        /\ copied = {}
        /\ data[Root].kind = "dir" /\ Empty(data)

\* C7, amended: without a source, and 'data' not a regular file, the call
\* logs the error, returns without raising and copies nothing; 'data' is a
\* directory, empty if this call created it, and with exactly the entries it
\* had if it was a directory before.
C7_SourceMissing ==
    (Done /\ source[Root].kind = "none" /\ pre.data[Root].kind # "file") =>
        /\ raised = "none"
        /\ log[Len(log)] = "error: source missing"
        /\ copied = {}
        /\ data[Root].kind = "dir"
        /\ IF PreDir THEN data = pre.data ELSE Empty(data)
        /\ linked = pre.linked

\* No source, 'data' absent: the error is logged and the new directory is empty.
C7_Witness ==
    /\ Done /\ source[Root].kind = "none" /\ pre.data[Root].kind = "none"
    /\ raised = "none" /\ log[Len(log)] = "error: source missing"
    /\ data[Root].kind = "dir" /\ Empty(data)

\* C8: the input directory is not copied file by file: of a call that
\* returns, no copy2 call has a file below '/data/input' as its source.
C8_InputNotCopied ==
    Returned => \A c \in copied : c[1][1] # "input"

\* C9: with 'data' a real directory, every entry below it that the source
\* has nothing for at the same relative path is, after the call, what it was.
C9_DestinationOnlyKept ==
    (Done /\ PreDir) =>
        \A p \in Paths :
            (pre.data[p].kind # "none" /\ source[p].kind = "none")
                => data[p] = pre.data[p]

\* C9, where it does hold: the same, when no directory of the destination
\* stands at the path of a regular file of the source.
C9_WithoutTypeConflict ==
    (Done /\ PreDir /\ ~TypeConflict(pre)) =>
        \A p \in Paths :
            (pre.data[p].kind # "none" /\ source[p].kind = "none")
                => data[p] = pre.data[p]

\* C10: with 'data' a link to a directory D, nothing is ever written through
\* the link: D is what it was in every state of the call; the link is gone
\* before the directory is made, the directory is empty before the walk, and
\* a walk that returns has handed every source file to copy2 and left it
\* mirrored, whatever D held.
C10_NoWriteThroughLink ==
    (run > 0 /\ PreLink /\ pre.linked[Root].kind = "dir") =>
        /\ linked = pre.linked
        /\ pc = "makedirs" => (data = NoTree /\ copied = {})
        /\ pc = "guard" => (data[Root].kind = "dir" /\ Empty(data) /\ copied = {})
        /\ (Returned /\ source[Root].kind = "dir") =>
              \A p \in SrcFiles : <<p, p>> \in copied /\ Mirrors(p)

\* D held a newer file of the same name; the source's file was copied into
\* the new directory all the same and D's file is untouched.
C10_Witness ==
    /\ Returned /\ PreLink /\ pre.linked[Root].kind = "dir"
    /\ \E p \in SrcFiles :
          /\ pre.linked[p].kind = "file" /\ pre.linked[p].mtime > source[p].mtime
          /\ Mirrors(p) /\ linked[p] = pre.linked[p]

====
